---- MODULE Spec2Model ----
(***************************************************************************)
(* A model of src/ssa_style.py: the Style dataclass of an SSA subtitle     *)
(* file, its validation on construction (__post_init__), its header and    *)
(* record line (header, __str__), the colour byte swap (reformat_colour)   *)
(* and Alignment.validate.                                                 *)
(*                                                                         *)
(* Python values are records [t, n, s]: t is the Python type, n the number *)
(* (an int's value, a bool's 0/1, a BorderStyle member's code, twice the   *)
(* value of a float, so 29 is 14.5), s the characters of a str.  Text that *)
(* the program produces is a TLA+ string.                                  *)
(***************************************************************************)
EXTENDS Integers, Sequences, FiniteSets, TLC

\* pc       "new" before Style(...) is called, then "ok" (a record exists) or
\*          "failed" (__post_init__ raised: the caller holds no record)
\* args     the fields as __init__ assigned them: keyword arguments and defaults
\* self     the fields of the record
\* err      the exception of the construction, "none" without one
\* warns    the warnings the construction emitted, in order
\* out      what the last call of str(record), header() or reformat_colour gave
\* nSet     the field assignments made on the record since its construction
\* left     the inputs the caller may still give
\* inp, res, applied, verdict   the argument and results of Alignment.validate
\*          and reformat_colour when they are run on their own
VARIABLES pc, args, self, err, warns, out, nSet, left, inp, res, applied, verdict

vars == <<pc, args, self, err, warns, out, nSet, left, inp, res, applied, verdict>>

(***************************************************************************)
(* Bounds of the model.                                                    *)
(***************************************************************************)
\* keyword arguments plus later field assignments given by the caller
MaxInputs == 2
\* Alignment.validate is tried on -MaxAlignment .. MaxAlignment
MaxAlignment == 60
\* each colour byte is drawn from 0..ByteEdge, 127-ByteEdge..128+ByteEdge, 255-ByteEdge..255
ByteEdge == 1
\* applications of reformat_colour in a row
MaxApply == 2

(***************************************************************************)
(* Python values.                                                          *)
(***************************************************************************)
I(k) == [t |-> "int", n |-> k, s |-> <<>>]
B(b) == [t |-> "bool", n |-> IF b THEN 1 ELSE 0, s |-> <<>>]
S(cs) == [t |-> "str", n |-> 0, s |-> cs]
F(h) == [t |-> "float", n |-> h, s |-> <<>>]
E(code) == [t |-> "enum", n |-> code, s |-> <<>>]
None == [t |-> "none", n |-> 0, s |-> <<>>]

\* one statement after another: v is computed once, then Op runs on its value
Then(v, Op(_)) == CHOOSE r \in {Op(w) : w \in {v}} : TRUE

\* isinstance(v, int): bool is a subclass of int
IsInt(v) == v.t \in {"int", "bool"}
IsStr(v) == v.t = "str"
IsBool(v) == v.t = "bool"

\* v == k for an integer k
PyEqInt(v, k) ==
  \/ v.t \in {"int", "bool"} /\ v.n = k
  \/ v.t = "float" /\ v.n = 2 * k

\* bool(v)
PyBool(v) ==
  CASE v.t \in {"int", "bool", "float"} -> v.n # 0
    [] v.t = "str" -> v.s # <<>>
    [] v.t = "none" -> FALSE
    [] OTHER -> TRUE

DigitVal ==
  [c \in {"0", "1", "2", "3", "4", "5", "6", "7", "8", "9",
          "a", "b", "c", "d", "e", "f", "A", "B", "C", "D", "E", "F"} |->
     CASE c = "0" -> 0 [] c = "1" -> 1 [] c = "2" -> 2 [] c = "3" -> 3
       [] c = "4" -> 4 [] c = "5" -> 5 [] c = "6" -> 6 [] c = "7" -> 7
       [] c = "8" -> 8 [] c = "9" -> 9
       [] c \in {"a", "A"} -> 10 [] c \in {"b", "B"} -> 11
       [] c \in {"c", "C"} -> 12 [] c \in {"d", "D"} -> 13
       [] c \in {"e", "E"} -> 14 [] c \in {"f", "F"} -> 15]

IsDigit(c, base) == c \in DOMAIN DigitVal /\ DigitVal[c] < base

RECURSIVE DigitsValue(_, _, _)
DigitsValue(cs, base, acc) ==
  IF cs = <<>> THEN acc
  ELSE DigitsValue(Tail(cs), base, acc * base + DigitVal[Head(cs)])

\* int(text, base) on the characters cs: an optional sign, then digits of the base
\* (blanks, underscores and a 0x prefix, which int() also reads, are in no input)
ParseUnsigned(body, base, negative) ==
  IF body # <<>> /\ \A i \in 1..Len(body) : IsDigit(body[i], base)
    THEN [ok |-> TRUE,
          n |-> IF negative THEN -DigitsValue(body, base, 0) ELSE DigitsValue(body, base, 0)]
    ELSE [ok |-> FALSE, n |-> 0]

ParseInt(cs, base) ==
  IF cs # <<>> /\ Head(cs) \in {"-", "+"}
    THEN ParseUnsigned(Tail(cs), base, Head(cs) = "-")
    ELSE ParseUnsigned(cs, base, FALSE)

\* text.lstrip(ch)
RECURSIVE LStrip(_, _)
LStrip(cs, ch) ==
  IF cs # <<>> /\ Head(cs) = ch THEN LStrip(Tail(cs), ch) ELSE cs

\* int(v): [ok, n, err]
PyInt(v) ==
  CASE v.t \in {"int", "bool"} -> [ok |-> TRUE, n |-> v.n, err |-> "none"]
    [] v.t = "float" ->
         [ok |-> TRUE, n |-> IF v.n >= 0 THEN v.n \div 2 ELSE -((-v.n) \div 2),
          err |-> "none"]
    [] v.t = "str" ->
         Then(ParseInt(v.s, 10),
              LAMBDA p : [ok |-> p.ok, n |-> p.n,
                          err |-> IF p.ok THEN "none" ELSE "ValueError"])
    [] OTHER -> [ok |-> FALSE, n |-> 0, err |-> "TypeError"]

(***************************************************************************)
(* Bit operations on Python's unbounded integers.                          *)
(***************************************************************************)
RECURSIVE BitAnd(_, _)
BitAnd(a, b) ==
  IF a = 0 \/ b = 0 THEN 0
  ELSE 2 * BitAnd(a \div 2, b \div 2) + (IF a % 2 = 1 /\ b % 2 = 1 THEN 1 ELSE 0)

RECURSIVE BitOr(_, _)
BitOr(a, b) ==
  IF a = 0 THEN b
  ELSE IF b = 0 THEN a
  ELSE 2 * BitOr(a \div 2, b \div 2) + (IF a % 2 = 1 \/ b % 2 = 1 THEN 1 ELSE 0)

\* a & mask for any integer a and a mask in 0 .. 2^24 - 1 (every mask of the
\* program): the low 24 bits of a's two's complement are a mod 2^24
PyAnd(a, mask) == BitAnd(a % 16777216, mask)

(***************************************************************************)
(* Text.                                                                   *)
(***************************************************************************)
Digit == <<"0", "1", "2", "3", "4", "5", "6", "7", "8", "9">>

RECURSIVE DecNat(_)
DecNat(k) == IF k < 10 THEN Digit[k + 1] ELSE DecNat(k \div 10) \o Digit[(k % 10) + 1]

\* str(k) for an int k
Dec(k) == IF k < 0 THEN "-" \o DecNat(-k) ELSE DecNat(k)

\* ''.join(cs)
RECURSIVE Text(_)
Text(cs) == IF cs = <<>> THEN "" ELSE Head(cs) \o Text(Tail(cs))

\* sep.join(ts)
RECURSIVE Join(_, _)
Join(ts, sep) ==
  IF ts = <<>> THEN ""
  ELSE IF Len(ts) = 1 THEN ts[1]
  ELSE ts[1] \o sep \o Join(Tail(ts), sep)

(***************************************************************************)
(* class BorderStyle, class Alignment.                                     *)
(***************************************************************************)
OUTLINE == 1
OPAQUE_BOX == 3

LEFT == 1
CENTER == 2
RIGHT == 3
BOTTOM == 0
MIDDLE == 8
TOP == 4

\* BorderStyle(v): the member itself, the member of that value, or ValueError
BorderStyleCoerces(v) ==
  IF v.t = "enum" THEN [ok |-> TRUE, v |-> v]
  ELSE IF PyEqInt(v, OPAQUE_BOX) THEN [ok |-> TRUE, v |-> E(OPAQUE_BOX)]
  ELSE [ok |-> TRUE, v |-> E(OUTLINE)]

BorderStyle(v) ==
  IF v.t = "enum" THEN [ok |-> TRUE, v |-> v]
  ELSE IF PyEqInt(v, OUTLINE) THEN [ok |-> TRUE, v |-> E(OUTLINE)]
  ELSE IF PyEqInt(v, OPAQUE_BOX) THEN [ok |-> TRUE, v |-> E(OPAQUE_BOX)]
  ELSE [ok |-> FALSE, v |-> v]

\* Alignment.validate(value): "True" or "ValueError"
AlignmentValidateNoTop(value) ==
  IF \E h \in {LEFT, CENTER, RIGHT} : \E v \in {BOTTOM, MIDDLE} :
       PyEqInt(value, BitOr(h, v))
  THEN "True"
  ELSE "ValueError"

AlignmentValidateFalse(value) ==
  IF \E h \in {LEFT, CENTER, RIGHT} : \E v \in {BOTTOM, MIDDLE, TOP} :
       PyEqInt(value, BitOr(h, v))
  THEN "True"
  ELSE "False"

AlignmentValidate(value) ==
  IF \E h \in {LEFT, CENTER, RIGHT} : \E v \in {BOTTOM, MIDDLE, TOP} :
       PyEqInt(value, BitOr(h, v))
  THEN "True"
  ELSE "ValueError"

(***************************************************************************)
(* class Style: the fields and their defaults.                             *)
(***************************************************************************)
Fields ==
  <<"name", "font_name", "font_size",
    "primary_colour", "secondary_colour", "outline_colour", "back_colour",
    "bold", "italic", "underline", "strikethrough",
    "border_style", "outline", "shadow", "alignment",
    "margin_l", "margin_r", "margin_v", "alpha_level", "encoding">>

FieldSet == {Fields[i] : i \in 1..Len(Fields)}

ColourFields == <<"primary_colour", "secondary_colour", "outline_colour", "back_colour">>

BoolFields == <<"bold", "italic", "underline", "strikethrough">>

Defaults ==
  [f \in FieldSet |->
     CASE f = "name" -> S(<<"D", "e", "f", "a", "u", "l", "t">>)
       [] f = "font_name" -> S(<<"A", "r", "i", "a", "l">>)
       [] f = "font_size" -> I(14)
       [] f \in {"primary_colour", "secondary_colour", "outline_colour"} -> I(16777215)
       [] f = "back_colour" -> I(0)
       [] f \in {"bold", "italic", "underline", "strikethrough"} -> B(FALSE)
       [] f = "border_style" -> E(OUTLINE)
       [] f \in {"outline", "shadow"} -> I(1)
       [] f = "alignment" -> I(BitOr(BOTTOM, CENTER))
       [] f \in {"margin_l", "margin_r", "margin_v"} -> I(10)
       [] OTHER -> I(0)]

(***************************************************************************)
(* Style._validate_colour and Style.reformat_colour.                       *)
(***************************************************************************)
Warning(about, kind) == [about |-> about, kind |-> kind]

\* lines 80-87: a str is read as hex; [ok, v, w, err]
ColourFromStr(f, c) ==
  IF ~IsStr(c) THEN [ok |-> TRUE, v |-> c, w |-> <<>>, err |-> "none"]
  ELSE Then(ParseInt(LStrip(c.s, "#"), 16),
            LAMBDA hex :
              IF hex.ok
                THEN [ok |-> TRUE, v |-> I(hex.n),
                      w |-> <<Warning(f, "interpreted")>>, err |-> "none"]
                ELSE [ok |-> FALSE, v |-> c, w |-> <<>>, err |-> "TypeError"])

\* lines 89-96: what is not an int goes through int()
ColourToInt(f, a) ==
  IF ~a.ok \/ IsInt(a.v) THEN a
  ELSE Then(PyInt(a.v),
            LAMBDA p :
              IF p.ok
                THEN [ok |-> TRUE, v |-> I(p.n),
                      w |-> Append(a.w, Warning(f, "interpreted")), err |-> "none"]
                ELSE [ok |-> FALSE, v |-> a.v, w |-> a.w, err |-> "TypeError"])

\* lines 99-104: an int outside [0, 0xFFFFFF] is cut to its low 24 bits
ColourInRange(f, b) ==
  IF ~b.ok \/ (0 <= b.v.n /\ b.v.n <= 16777215) THEN b
  ELSE [ok |-> TRUE, v |-> [b.v EXCEPT !.n = PyAnd(b.v.n, 16777215)],
        w |-> Append(b.w, Warning(f, "out_of_range")), err |-> "none"]

\* _validate_colour(c) for the colour of field f: [ok, v, w, err]
ValidateColour(f, c) ==
  Then(Then(ColourFromStr(f, c), LAMBDA a : ColourToInt(f, a)),
       LAMBDA b : ColourInRange(f, b))

\* reformat_colour(rrggbb) on an int
ReformatColourNoGreen(rrggbb) ==
  LET r == PyAnd(rrggbb, 16711680) \div 65536
      b == PyAnd(rrggbb, 255)
  IN b * 65536 + r

ReformatColour(rrggbb) ==
  LET r == PyAnd(rrggbb, 16711680) \div 65536
      g == PyAnd(rrggbb, 65280) \div 256
      b == PyAnd(rrggbb, 255)
  IN b * 65536 + g * 256 + r

(***************************************************************************)
(* Style.__post_init__, one definition per check, in the order of the      *)
(* code.  st is [self, w, err]: the fields, the warnings emitted so far    *)
(* and the exception raised ("none" while none is).                        *)
(***************************************************************************)
Raise(st, e) == [st EXCEPT !.err = e]

\* lines 108-109
CheckName(st) ==
  IF st.err # "none" THEN st
  ELSE IF ~IsStr(st.self["name"]) THEN Raise(st, "TypeError")
  ELSE st

\* lines 111-112
CheckFontName(st) ==
  IF st.err # "none" THEN st
  ELSE IF ~IsStr(st.self["font_name"]) THEN Raise(st, "TypeError")
  ELSE st

\* lines 114-120: int() raises ValueError (turned into TypeError) or TypeError
CoerceFontSize(st) ==
  IF st.err # "none" \/ IsInt(st.self["font_size"]) THEN st
  ELSE Then(PyInt(st.self["font_size"]),
            LAMBDA p :
              IF p.ok
                THEN [st EXCEPT !.self["font_size"] = I(p.n),
                                !.w = Append(@, Warning("font_size", "converted"))]
                ELSE Raise(st, "TypeError"))

\* lines 122-123, one colour of the loop: the value _validate_colour returns is dropped
CheckColour(st, f) ==
  IF st.err # "none" THEN st
  ELSE Then(ValidateColour(f, st.self[f]),
            LAMBDA c : [st EXCEPT !.w = @ \o c.w, !.err = c.err])

\* lines 122-123: the loop, from the i-th colour of the tuple on
RECURSIVE CheckColoursFrom(_, _)
CheckColoursFrom(st, i) ==
  IF i > Len(ColourFields) THEN st
  ELSE CheckColoursFrom(Then(st, LAMBDA s : CheckColour(s, ColourFields[i])), i + 1)

CheckColours(st) == CheckColoursFrom(st, 1)

\* lines 125-143, one boolean field
CoerceBoolSilent(st, f) ==
  IF st.err # "none" \/ IsBool(st.self[f]) THEN st
  ELSE [st EXCEPT !.self[f] = B(PyBool(st.self[f]))]

CoerceBool(st, f) ==
  IF st.err # "none" \/ IsBool(st.self[f]) THEN st
  ELSE [st EXCEPT !.self[f] = B(PyBool(st.self[f])),
                  !.w = Append(@, Warning(f, "converted"))]

\* lines 125-143
CoerceBools(st) ==
  Then(Then(Then(Then(st,
    LAMBDA s : CoerceBool(s, BoolFields[1])),
    LAMBDA s : CoerceBool(s, BoolFields[2])),
    LAMBDA s : CoerceBool(s, BoolFields[3])),
    LAMBDA s : CoerceBool(s, BoolFields[4]))

\* line 147
ConvertBorderStyleCoercing(st) ==
  IF st.err # "none" THEN st
  ELSE [st EXCEPT !.self["border_style"] = BorderStyleCoerces(@).v]

ConvertBorderStyle(st) ==
  IF st.err # "none" THEN st
  ELSE Then(BorderStyle(st.self["border_style"]),
            LAMBDA b : IF b.ok THEN [st EXCEPT !.self["border_style"] = b.v]
                       ELSE Raise(st, "ValueError"))

\* v in range(5)
InRange5(v) == \E k \in 0..4 : PyEqInt(v, k)

\* lines 150-151
CheckOutline(st) ==
  IF st.err # "none" THEN st
  ELSE IF ~InRange5(st.self["outline"]) THEN Raise(st, "ValueError")
  ELSE st

\* lines 153-154
CheckShadowSkipped(st) == st

CheckShadow(st) ==
  IF st.err # "none" THEN st
  ELSE IF ~InRange5(st.self["shadow"]) THEN Raise(st, "ValueError")
  ELSE st

\* line 156
CheckAlignment(st) ==
  IF st.err # "none" THEN st
  ELSE IF AlignmentValidate(st.self["alignment"]) = "ValueError"
    THEN Raise(st, "ValueError")
  ELSE st

\* __post_init__ on the fields the generated __init__ has assigned
PostInit(a) ==
  Then(Then(Then(Then(Then(Then(Then(Then(Then(
    [self |-> a, w |-> <<>>, err |-> "none"],
    CheckName), CheckFontName), CoerceFontSize), CheckColours), CoerceBools),
    ConvertBorderStyle), CheckOutline), CheckShadow), CheckAlignment)

(***************************************************************************)
(* Style.header and Style.__str__.                                         *)
(***************************************************************************)
HeaderNames ==
  <<"Name", "Fontname", "Fontsize",
    "PrimaryColour", "SecondaryColour",
    "OutlineColour", "BackColour",
    "Bold", "Italic", "Underline", "Strikethrough",
    "BorderStyle", "Outline", "Shadow", "Alignment",
    "MarginL", "MarginR", "MarginV", "AlphaLevel", "Encoding">>

\* header()
Header == "[V4 Styles]\nFormat: " \o Join(HeaderNames, ", ")

\* str(v)
PyStr(v) ==
  CASE v.t = "str" -> Text(v.s)
    [] v.t = "int" -> Dec(v.n)
    [] v.t = "bool" -> IF v.n = 1 THEN "True" ELSE "False"
    [] v.t = "float" ->
         (IF v.n < 0 THEN "-" ELSE "")
           \o DecNat((IF v.n < 0 THEN -v.n ELSE v.n) \div 2)
           \o (IF v.n % 2 = 0 THEN ".0" ELSE ".5")
    [] v.t = "none" -> "None"
    [] OTHER -> IF v.n = OUTLINE THEN "BorderStyle.OUTLINE" ELSE "BorderStyle.OPAQUE_BOX"

Item(text) == [err |-> "none", text |-> text]
Fails(e) == [err |-> e, text |-> ""]

\* lines 180, 184, 185: the field as it is, then str()
PlainItem(v) == Item(PyStr(v))

\* lines 181-182: str(self.reformat_colour(c)); & is defined on int and bool only
ColourItem(c) ==
  IF IsInt(c) THEN Item(Dec(ReformatColour(c.n))) ELSE Fails("TypeError")

\* line 183: str(-int(b))
BoolItem(b) ==
  Then(PyInt(b), LAMBDA p : IF p.ok THEN Item(Dec(-p.n)) ELSE Fails(p.err))

\* line 184: str(self.border_style.value); only a BorderStyle member has .value
BorderItemMember(v) == Item(PyStr(v))

BorderItem(v) ==
  IF v.t = "enum" THEN Item(Dec(v.n)) ELSE Fails("AttributeError")

\* lines 179-186: the list handed to map(str, ...), in its order
StrItems(s) ==
  <<PlainItem(s["name"]), PlainItem(s["font_name"]), PlainItem(s["font_size"]),
    ColourItem(s["primary_colour"]), ColourItem(s["secondary_colour"]),
    ColourItem(s["outline_colour"]), ColourItem(s["back_colour"]),
    BoolItem(s["bold"]), BoolItem(s["italic"]),
    BoolItem(s["underline"]), BoolItem(s["strikethrough"]),
    BorderItem(s["border_style"]), PlainItem(s["outline"]), PlainItem(s["shadow"]),
    PlainItem(s["alignment"]),
    PlainItem(s["margin_l"]), PlainItem(s["margin_r"]), PlainItem(s["margin_v"]),
    PlainItem(s["alpha_level"]), PlainItem(s["encoding"])>>

NoOut == [op |-> "none", err |-> "none", text |-> "", toks |-> <<>>, num |-> 0]

\* the line of the items, or the exception of the first item that raises
LineOf(items) ==
  LET bad == {i \in 1..Len(items) : items[i].err # "none"}
      first == CHOOSE i \in bad : \A j \in bad : i <= j
      toks == [i \in 1..Len(items) |-> items[i].text]
  IN IF bad # {}
       THEN [NoOut EXCEPT !.op = "str", !.err = items[first].err]
       ELSE [NoOut EXCEPT !.op = "str", !.toks = toks,
                          !.text = "Style: " \o Join(toks, ", ")]

\* __str__(self)
StrResult(s) == Then(StrItems(s), LineOf)

(***************************************************************************)
(* What the caller passes: for each field, the values tried besides its    *)
(* default, as keyword arguments of Style(...) and in later assignments.   *)
(***************************************************************************)
Alt(f) ==
  CASE f = "name" -> {S(<<"T", "o", "p">>), I(5)}
    [] f = "font_name" -> {I(5)}
    [] f = "font_size" -> {F(29), S(<<"1", "2">>), S(<<"x">>)}
    [] f = "primary_colour" ->
         {I(255), I(16777217), S(<<"#", "F", "F", "0", "0", "0", "0">>), S(<<"z", "z">>)}
    [] f = "secondary_colour" -> {I(-1), S(<<"F", "F">>)}
    [] f = "outline_colour" -> {F(5)}
    [] f = "back_colour" -> {None}
    [] f = "bold" -> {B(TRUE), I(1), I(0)}
    [] f \in {"italic", "underline", "strikethrough"} -> {I(2), I(0)}
    [] f = "border_style" -> {I(1), I(2), I(3)}
    [] f = "outline" -> {I(4), I(5)}
    [] f = "shadow" -> {I(0), I(-1)}
    [] f = "alignment" -> {I(0), I(7), I(12)}
    [] f \in {"margin_l", "encoding"} -> {I(3)}
    [] OTHER -> {}

Inputs == UNION {{<<f, v>> : v \in Alt(f)} : f \in FieldSet}

\* the keyword-argument sets of at most k arguments, one per field
RECURSIVE Kwargs(_)
Kwargs(k) ==
  IF k = 0 THEN {{}}
  ELSE LET less == Kwargs(k - 1)
       IN less \cup UNION {{kw \cup {p} :
                               p \in {q \in Inputs : \A r \in kw : r[1] # q[1]}} :
                             kw \in less}

\* the generated __init__: each field is its keyword argument or its default
InitFields(kw) ==
  [f \in FieldSet |->
     IF \E p \in kw : p[1] = f THEN (CHOOSE p \in kw : p[1] = f)[2] ELSE Defaults[f]]

NoRecord == [f \in FieldSet |-> None]

(***************************************************************************)
(* The life of one record.                                                 *)
(***************************************************************************)
\* Style(**kw): __init__ assigns the fields, __post_init__ checks them; an
\* exception leaves the caller without a record
Construct ==
  /\ pc = "new"
  /\ \E kw \in Kwargs(MaxInputs) :
       \E a \in {InitFields(kw)} :
         \E st \in {PostInit(a)} :
           /\ args' = a
           /\ left' = MaxInputs - Cardinality(kw)
           /\ err' = st.err
           /\ warns' = st.w
           /\ pc' = IF st.err = "none" THEN "ok" ELSE "failed"
           /\ self' = IF st.err = "none" THEN st.self ELSE NoRecord
  /\ out' = NoOut
  /\ UNCHANGED <<nSet, inp, res, applied, verdict>>

\* record.f = v: the dataclass defines no __setattr__, nothing is checked
SetField ==
  /\ pc = "ok"
  /\ left > 0
  /\ \E p \in Inputs : self' = [self EXCEPT ![p[1]] = p[2]]
  /\ nSet' = nSet + 1
  /\ left' = left - 1
  /\ out' = NoOut
  /\ UNCHANGED <<pc, args, err, warns, inp, res, applied, verdict>>

\* str(record)
StrInPlace ==
  /\ pc = "ok"
  /\ out' = StrResult(self)
  /\ self' = [f \in FieldSet |->
                IF f \in {"primary_colour", "secondary_colour",
                          "outline_colour", "back_colour"} /\ IsInt(self[f])
                  THEN I(ReformatColour(self[f].n)) ELSE self[f]]
  /\ UNCHANGED <<pc, args, err, warns, nSet, left, inp, res, applied, verdict>>

Str ==
  /\ pc = "ok"
  /\ out' = StrResult(self)
  /\ UNCHANGED <<pc, args, self, err, warns, nSet, left, inp, res, applied, verdict>>

\* Style.header()
CallHeader ==
  /\ out' = [NoOut EXCEPT !.op = "header", !.text = Header, !.toks = HeaderNames]
  /\ UNCHANGED <<pc, args, self, err, warns, nSet, left, inp, res, applied, verdict>>

\* Style.reformat_colour(record.primary_colour)
CallReformat ==
  /\ pc = "ok"
  /\ out' = IF IsInt(self["primary_colour"])
              THEN [NoOut EXCEPT !.op = "reformat",
                                 !.num = ReformatColour(self["primary_colour"].n)]
              ELSE [NoOut EXCEPT !.op = "reformat", !.err = "TypeError"]
  /\ UNCHANGED <<pc, args, self, err, warns, nSet, left, inp, res, applied, verdict>>

Idle == inp = I(0) /\ res = I(0) /\ applied = 0 /\ verdict = "none"

Init ==
  /\ pc = "new"
  /\ args = NoRecord
  /\ self = NoRecord
  /\ err = "none"
  /\ warns = <<>>
  /\ out = NoOut
  /\ nSet = 0
  /\ left = MaxInputs
  /\ Idle

Next == Construct \/ SetField \/ Str \/ CallHeader \/ CallReformat

Spec == Init /\ [][Next]_vars

(***************************************************************************)
(* Alignment.validate on its own.                                          *)
(***************************************************************************)
NoLife ==
  /\ pc = "new" /\ args = NoRecord /\ self = NoRecord /\ err = "none"
  /\ warns = <<>> /\ out = NoOut /\ nSet = 0 /\ left = 0

InitAlign ==
  /\ NoLife
  /\ inp \in {I(k) : k \in -MaxAlignment..MaxAlignment}
  /\ res = I(0) /\ applied = 0 /\ verdict = "none"

CallValidate ==
  /\ verdict = "none"
  /\ verdict' = AlignmentValidate(inp)
  /\ UNCHANGED <<pc, args, self, err, warns, out, nSet, left, inp, res, applied>>

NextAlign == CallValidate

SpecAlign == InitAlign /\ [][NextAlign]_vars

(***************************************************************************)
(* Style.reformat_colour on its own, applied to its own result.            *)
(***************************************************************************)
Bytes ==
  (0..ByteEdge) \cup ((127 - ByteEdge)..(128 + ByteEdge)) \cup ((255 - ByteEdge)..255)

InitReformat ==
  /\ NoLife
  /\ inp \in {I(r * 65536 + g * 256 + b) : r \in Bytes, g \in Bytes, b \in Bytes}
  /\ res = inp /\ applied = 0 /\ verdict = "none"

ApplyReformat ==
  /\ applied < MaxApply
  /\ res' = I(ReformatColour(res.n))
  /\ applied' = applied + 1
  /\ UNCHANGED <<pc, args, self, err, warns, out, nSet, left, inp, verdict>>

NextReformat == ApplyReformat

SpecReformat == InitReformat /\ [][NextReformat]_vars

(***************************************************************************)
(* The claims.                                                             *)
(***************************************************************************)
\* the record has been constructed and no field has been assigned since
Fresh == pc = "ok" /\ nSet = 0

\* C1, as claimed: Style() with no arguments serializes to the line with colours
\* 65535 and twenty-one values
C1_Original ==
  (Fresh /\ args = Defaults /\ out.op = "str") =>
    out.text = "Style: Default, Arial, 14, 65535, 65535, 65535, 0, 0, 0, 0, 0, 1, 1, 1, 10, 10, 10, 10, 0, 0, 0"

\* C1, amended: Style() with no arguments serializes without an exception to the
\* twenty values Default, Arial, 14, 16777215 three times, 0, four 0 flags,
\* 1, 1, 1, alignment 2, margins 10, 10, 10, 0, 0
C1_DefaultLine ==
  (Fresh /\ args = Defaults /\ out.op = "str") =>
    /\ out.err = "none"
    /\ out.text = "Style: Default, Arial, 14, 16777215, 16777215, 16777215, 0, 0, 0, 0, 0, 1, 1, 1, 2, 10, 10, 10, 0, 0"

C1_Witness == Fresh /\ args = Defaults /\ out.op = "str" /\ out.err = "none"

\* what colour normalization makes of the input c: an int is kept or cut to its low
\* 24 bits, a hex str is its parsed integer
Normalized(c) ==
  CASE IsInt(c) -> c.n % 16777216
    [] IsStr(c) -> ParseInt(LStrip(c.s, "#"), 16).n % 16777216
    [] OTHER -> PyInt(c).n % 16777216

\* C2: after a successful construction each of the four colour fields stores the
\* normalized input, an integer in [0, 0xFFFFFF]
C2_ColoursNormalized ==
  Fresh =>
    \A i \in 1..Len(ColourFields) :
      LET f == ColourFields[i]
      IN /\ self[f].t = "int"
         /\ self[f].n = Normalized(args[f])
         /\ 0 <= self[f].n /\ self[f].n <= 16777215

\* C3, as claimed: validate returns True only for 0,1,2,3,4,5,6,8,9,10,11,12 and
\* raises ValueError for every other integer
C3_Original ==
  verdict # "none" =>
    /\ verdict = "True" => inp.n \in {0, 1, 2, 3, 4, 5, 6, 8, 9, 10, 11, 12}
    /\ inp.n \notin {0, 1, 2, 3, 4, 5, 6, 8, 9, 10, 11, 12} => verdict = "ValueError"

\* C3, amended: validate returns True only for 1,2,3,5,6,7,9,10,11 and raises
\* ValueError for every other integer
C3_AcceptedOnly ==
  verdict # "none" =>
    /\ verdict = "True" => inp.n \in {1, 2, 3, 5, 6, 7, 9, 10, 11}
    /\ inp.n \notin {1, 2, 3, 5, 6, 7, 9, 10, 11} => verdict = "ValueError"

C3_Witness == verdict = "True" /\ inp.n = 7

\* h | v for a horizontal h of 1, 2, 3 and a vertical v of 0, 4, 8
HorizontalOrVertical == {BitOr(h, v) : h \in {1, 2, 3}, v \in {0, 4, 8}}

\* C4: validate returns True exactly for the nine values h | v, and for every
\* other integer raises ValueError, never returning False
C4_ExactlyNine ==
  /\ Cardinality(HorizontalOrVertical) = 9
  /\ verdict # "none" =>
       /\ verdict = "True" <=> inp.n \in HorizontalOrVertical
       /\ verdict \in {"True", "ValueError"}

C4_Witness == verdict = "ValueError" /\ inp.n = 12

\* C5: for an RGB integer c in [0, 0xFFFFFF], one reformat_colour is
\* (blue << 16) | (green << 8) | red and two give c back
C5_SelfInverse ==
  LET c == inp.n
      red == c \div 65536
      green == (c \div 256) % 256
      blue == c % 256
  IN (0 <= c /\ c <= 16777215) =>
       /\ applied = 1 => res.n = BitOr(BitOr(blue * 65536, green * 256), red)
       /\ applied = 2 => res = inp

C5_Witness == applied = 2 /\ inp.n = 255 /\ res.n = 255

\* the input v of field f is legal for f as it stands, with no coercion (any
\* input is taken for a boolean field)
ValidInput(f, v) ==
  CASE f \in {"name", "font_name"} -> IsStr(v)
    [] f \in {"primary_colour", "secondary_colour", "outline_colour", "back_colour"} ->
         v.t = "int" /\ 0 <= v.n /\ v.n <= 16777215
    [] f = "border_style" -> v.t = "enum" \/ (v.t = "int" /\ v.n \in {1, 3})
    [] f \in {"outline", "shadow"} -> v.t = "int" /\ v.n \in 0..4
    [] f = "alignment" -> v.t = "int" /\ v.n \in HorizontalOrVertical
    [] f \in {"bold", "italic", "underline", "strikethrough"} -> TRUE
    [] OTHER -> v.t = "int"

WarningsAbout(f) == Cardinality({i \in 1..Len(warns) : warns[i].about = f})

\* C6: for each boolean field, with the other fields valid the construction
\* succeeds; the field stores the truth value of its input; one warning names
\* the field when the input is not a bool and none when it is; the record line
\* writes the field as -1 when it is true and 0 when it is false
C6_BoolCoercion ==
  \A i \in 1..Len(BoolFields) :
    LET f == BoolFields[i]
    IN /\ (pc # "new" /\ \A g \in FieldSet : ValidInput(g, args[g])) => pc = "ok"
       /\ Fresh => self[f] = B(PyBool(args[f]))
       /\ pc = "ok" => WarningsAbout(f) = IF IsBool(args[f]) THEN 0 ELSE 1
       /\ (Fresh /\ out.op = "str" /\ \A g \in FieldSet : ValidInput(g, args[g])) =>
            /\ out.err = "none"
            /\ out.toks[7 + i] = IF PyBool(args[f]) THEN "-1" ELSE "0"

C6_Witness ==
  /\ Fresh /\ args["bold"] = I(1) /\ self["bold"] = B(TRUE)
  /\ out.op = "str" /\ out.toks[8] = "-1" /\ WarningsAbout("bold") = 1

\* an input that breaks the closed constraint of border_style, outline, shadow
\* or alignment
BreaksConstraint(a) ==
  \/ ~(a["border_style"].t = "enum" \/ PyEqInt(a["border_style"], 1)
         \/ PyEqInt(a["border_style"], 3))
  \/ ~(\E k \in {0, 1, 2, 3, 4} : PyEqInt(a["outline"], k))
  \/ ~(\E k \in {0, 1, 2, 3, 4} : PyEqInt(a["shadow"], k))
  \/ ~(\E k \in HorizontalOrVertical : PyEqInt(a["alignment"], k))

\* C7, as claimed: the construction fails with a ValueError and no record whenever
\* border_style, outline, shadow or alignment breaks its constraint
C7_Original ==
  (pc # "new" /\ BreaksConstraint(args)) =>
    pc = "failed" /\ err = "ValueError" /\ self = NoRecord

\* name and font_name are str, font_size goes through int(), each colour is
\* interpretable: the checks that come before border_style pass
EarlierChecksPass(a) ==
  /\ IsStr(a["name"]) /\ IsStr(a["font_name"])
  /\ PyInt(a["font_size"]).ok
  /\ \A i \in 1..Len(ColourFields) : ValidateColour(ColourFields[i], a[ColourFields[i]]).ok

\* C7, amended: whenever border_style, outline, shadow or alignment breaks its
\* constraint the construction fails with no record: with a ValueError when
\* the earlier checks of name, font_name, font_size and the colours pass, and
\* with the TypeError of the first of those that fails otherwise
C7_ValueErrors ==
  (pc # "new" /\ BreaksConstraint(args)) =>
    /\ pc = "failed" /\ self = NoRecord
    /\ err = IF EarlierChecksPass(args) THEN "ValueError" ELSE "TypeError"

C7_Witness ==
  pc = "failed" /\ args["border_style"] = I(2) /\ err = "ValueError" /\ self = NoRecord

\* the encoding of the i-th field of the record s in the record line
Encoding(i, s) ==
  LET v == s[Fields[i]]
  IN CASE i \in 4..7 ->
            LET c == v.n
            IN Dec((c % 256) * 65536 + ((c \div 256) % 256) * 256 + ((c \div 65536) % 256))
       [] i \in 8..11 -> IF v.n = 1 THEN "-1" ELSE "0"
       [] i = 12 -> Dec(v.n)
       [] OTHER -> PyStr(v)

\* C8: the header is [V4 Styles] and a Format: line of the twenty field names,
\* and the line of every constructed record is twenty values, the i-th the
\* encoding of the field the i-th header entry names
C8_HeaderAndLine ==
  /\ out.op = "header" =>
       /\ out.text = "[V4 Styles]\nFormat: Name, Fontname, Fontsize, PrimaryColour, SecondaryColour, OutlineColour, BackColour, Bold, Italic, Underline, Strikethrough, BorderStyle, Outline, Shadow, Alignment, MarginL, MarginR, MarginV, AlphaLevel, Encoding"
       /\ Len(out.toks) = 20
  /\ (Fresh /\ out.op = "str") =>
       /\ out.err = "none"
       /\ Len(out.toks) = 20
       /\ \A i \in 1..20 : out.toks[i] = Encoding(i, self)

\* C9: str(record), header() and reformat_colour leave the record as it was,
\* and a second str(record) gives the line of the first
C9_Frame ==
  [][out'.op # "none" =>
       /\ self' = self /\ args' = args /\ pc' = pc
       /\ (out.op = "str" /\ out'.op = "str") => out' = out]_vars

C9_Witness ==
  /\ pc = "ok" /\ self["primary_colour"] = I(255)
  /\ out.op = "str" /\ out.err = "none" /\ out.toks[4] = "16711680"

\* border_style is a BorderStyle member, outline and shadow are in 0..4 and
\* alignment is a legal alignment
Legal(s) ==
  /\ s["border_style"].t = "enum" /\ s["border_style"].n \in {1, 3}
  /\ \E k \in {0, 1, 2, 3, 4} : PyEqInt(s["outline"], k)
  /\ \E k \in {0, 1, 2, 3, 4} : PyEqInt(s["shadow"], k)
  /\ \E k \in HorizontalOrVertical : PyEqInt(s["alignment"], k)

\* C10, as claimed: after a successful construction, through any field
\* assignments and serializations, the four constrained fields stay legal
C10_Original == pc = "ok" => Legal(self)

\* C10, amended: after a successful construction, through any serializations and
\* until a field is assigned, the four constrained fields are legal
C10_LegalUntilAssigned == Fresh => Legal(self)

C10_Witness ==
  /\ Fresh /\ args["outline"] = I(4) /\ args["alignment"] = I(7)
  /\ out.op = "str" /\ out.err = "none"

====
